---- MODULE Spec2Model ----
(***************************************************************************)
(* State-machine model of the transform gizmo orchestrator                 *)
(* (crates/transform-gizmo/src/gizmo.rs, config.rs).                       *)
(*                                                                         *)
(* Numbers: an f64 is an exact fraction, a DVec3 three fractions over one  *)
(* denominator.  Rotations (DQuat) are the rotations of the cube, written  *)
(* as the triple of images of the basis vectors, so that quaternion*vector *)
(* and quaternion*quaternion are exact and non-commutative.  Angles are    *)
(* counted in quarter turns.                                               *)
(***************************************************************************)
EXTENDS Integers, Sequences, FiniteSets, TLC

VARIABLES
    config,                  \* Gizmo.config : PreparedGizmoConfig
    subgizmos,               \* Gizmo.subgizmos : Vec<SubGizmo>
    active_subgizmo_id,      \* Gizmo.active_subgizmo_id : Option<u64>
    target_start_transforms, \* Gizmo.target_start_transforms : Vec<Transform>
    gizmo_start_transform,   \* Gizmo.gizmo_start_transform : Transform
    ret,                     \* value returned by the last Gizmo::update call
    last,                    \* the last call and its interaction flags
    host,                    \* the host's target transforms (SpecHost)
    accum,                   \* the gesture as the host saw it: targets at drag
                             \* start, sum of oriented deltas, targets last passed
    gesture,                 \* "none" | "dragging" | "released" (SpecHost)
    draw_data                \* the GizmoDrawData the host merges draw lists into

gizmo == <<config, subgizmos, active_subgizmo_id,
           target_start_transforms, gizmo_start_transform>>
vars == <<config, subgizmos, active_subgizmo_id, target_start_transforms,
          gizmo_start_transform, ret, last, host, accum, gesture, draw_data>>

---------------------------------------------------------------------------
(* Bounds *)

\* longest target list the host passes
MaxTargets == 1
\* largest absolute coordinate the pivot or a host target may reach
MaxCoord == 4
\* most vertices, and most indices, of one operand of a draw-data merge
MaxVertices == 1
\* longest target list of the multi-target host loop (SpecDrag)
MaxDragTargets == 2
\* largest denominator the pivot or a host target translation may reach
MaxDen == 2

---------------------------------------------------------------------------
(* Option *)

None == [some |-> FALSE]
Some(v) == [some |-> TRUE, val |-> v]
IsSome(o) == o.some
IsNone(o) == ~o.some

---------------------------------------------------------------------------
(* glam vectors and quaternions *)

\* an f64 is an exact fraction <<num, den>> in lowest terms with den > 0
RECURSIVE Gcd(_, _)
Gcd(a, b) == IF b = 0 THEN a ELSE Gcd(b, a % b)
Abs(n) == IF n < 0 THEN -n ELSE n
Frac(n, d) ==
    IF d = 1 THEN <<n, 1>>
    ELSE LET g == Gcd(Abs(n), d) IN <<n \div g, d \div g>>
F(n) == <<n, 1>>
FAdd(a, b) == Frac(a[1] * b[2] + b[1] * a[2], a[2] * b[2])

\* a DVec3 (x/d, y/d, z/d) is <<x, y, z, d>> with d > 0 and no common divisor
Vec(x, y, z, d) ==
    IF d = 1 THEN <<x, y, z, 1>>
    ELSE LET g == Gcd(Gcd(Gcd(Abs(x), Abs(y)), Abs(z)), d)
         IN  <<x \div g, y \div g, z \div g, d \div g>>
\* DVec3::new on whole numbers
V(x, y, z) == <<x, y, z, 1>>
\* component k of a DVec3
Comp(v, k) == Frac(v[k], v[4])
VZero == V(0, 0, 0)
VOne == V(1, 1, 1)
VAdd(a, b) ==
    IF a[4] = 1 /\ b[4] = 1 THEN <<a[1] + b[1], a[2] + b[2], a[3] + b[3], 1>>
    ELSE Vec(a[1] * b[4] + b[1] * a[4], a[2] * b[4] + b[2] * a[4],
             a[3] * b[4] + b[3] * a[4], a[4] * b[4])
VSub(a, b) ==
    IF a[4] = 1 /\ b[4] = 1 THEN <<a[1] - b[1], a[2] - b[2], a[3] - b[3], 1>>
    ELSE Vec(a[1] * b[4] - b[1] * a[4], a[2] * b[4] - b[2] * a[4],
             a[3] * b[4] - b[3] * a[4], a[4] * b[4])
VMul(a, b) == Vec(a[1] * b[1], a[2] * b[2], a[3] * b[3], a[4] * b[4])
\* f64 * DVec3
VScaleF(k, a) == Vec(k[1] * a[1], k[1] * a[2], k[1] * a[3], k[2] * a[4])
\* a whole number times a DVec3
VScale(k, a) == Vec(k * a[1], k * a[2], k * a[3], a[4])
\* DVec3 / (n as f64), n a positive count
VDiv(a, n) == Vec(a[1], a[2], a[3], a[4] * n)
Dot(a, b) == Frac(a[1] * b[1] + a[2] * b[2] + a[3] * b[3], a[4] * b[4])
Cross(a, b) == Vec(a[2] * b[3] - a[3] * b[2],
                   a[3] * b[1] - a[1] * b[3],
                   a[1] * b[2] - a[2] * b[1], a[4] * b[4])

EX == V(1, 0, 0)
EY == V(0, 1, 0)
EZ == V(0, 0, 1)

\* DQuat::IDENTITY: a DQuat is the triple of the images of the basis
\* vectors, each a triple of whole numbers
QuatIdentity == <<<<1, 0, 0>>, <<0, 1, 0>>, <<0, 0, 1>>>>
\* DQuat * DVec3
QuatMulVec(q, v) ==
    Vec(v[1] * q[1][1] + v[2] * q[2][1] + v[3] * q[3][1],
        v[1] * q[1][2] + v[2] * q[2][2] + v[3] * q[3][2],
        v[1] * q[1][3] + v[2] * q[2][3] + v[3] * q[3][3], v[4])
\* the image of a basis vector under a, from its image e under b
QuatMulImg(a, e) ==
    <<e[1] * a[1][1] + e[2] * a[2][1] + e[3] * a[3][1],
      e[1] * a[1][2] + e[2] * a[2][2] + e[3] * a[3][2],
      e[1] * a[1][3] + e[2] * a[2][3] + e[3] * a[3][3]>>
\* DQuat * DQuat
QuatMul(a, b) == <<QuatMulImg(a, b[1]), QuatMulImg(a, b[2]), QuatMulImg(a, b[3])>>
\* one quarter turn about the unit axis: v -> axis (axis . v) + axis x v
QuarterTurn(axis) ==
    LET img(e) == LET w == VAdd(VScaleF(Dot(axis, e), axis), Cross(axis, e))
                  IN  <<w[1], w[2], w[3]>>
    IN  <<img(EX), img(EY), img(EZ)>>
\* DQuat::from_axis_angle(axis, angle), angle in quarter turns
RECURSIVE from_axis_angle(_, _)
from_axis_angle(axis, angle) ==
    IF angle = 0 THEN QuatIdentity
    ELSE QuatMul(QuarterTurn(axis), from_axis_angle(axis, angle - 1))

RotZ == QuarterTurn(EZ)
RotX == QuarterTurn(EX)

---------------------------------------------------------------------------
(* Transform, GizmoConfig *)

Transform(s, r, t) == [scale |-> s, rotation |-> r, translation |-> t]

AxisConfig(x, y, z, view) == [x |-> x, y |-> y, z |-> z, view |-> view]

\* AxisConfig::is_active
is_active(axis_config, direction) ==
    CASE direction = "X" -> axis_config.x
      [] direction = "Y" -> axis_config.y
      [] direction = "Z" -> axis_config.z
      [] direction = "View" -> axis_config.view

\* GizmoVisibility::default
VisibilityDefault ==
    [translation_arrow |-> AxisConfig(TRUE, TRUE, TRUE, TRUE),
     translation_plane |-> AxisConfig(TRUE, TRUE, TRUE, TRUE),
     scaling_arrow     |-> AxisConfig(TRUE, TRUE, TRUE, TRUE),
     scaling_plane     |-> AxisConfig(TRUE, TRUE, TRUE, TRUE),
     rotation_arc      |-> AxisConfig(TRUE, TRUE, TRUE, TRUE),
     rotation_arc_ball |-> TRUE]

\* a visibility with only some primitives shown
VisibilityFew ==
    [translation_arrow |-> AxisConfig(TRUE, FALSE, FALSE, TRUE),
     translation_plane |-> AxisConfig(FALSE, FALSE, FALSE, FALSE),
     scaling_arrow     |-> AxisConfig(TRUE, FALSE, FALSE, FALSE),
     scaling_plane     |-> AxisConfig(FALSE, FALSE, FALSE, TRUE),
     rotation_arc      |-> AxisConfig(FALSE, FALSE, TRUE, FALSE),
     rotation_arc_ball |-> FALSE]

\* nothing shown
VisibilityNone ==
    [translation_arrow |-> AxisConfig(FALSE, FALSE, FALSE, FALSE),
     translation_plane |-> AxisConfig(FALSE, FALSE, FALSE, FALSE),
     scaling_arrow     |-> AxisConfig(FALSE, FALSE, FALSE, FALSE),
     scaling_plane     |-> AxisConfig(FALSE, FALSE, FALSE, FALSE),
     rotation_arc      |-> AxisConfig(FALSE, FALSE, FALSE, FALSE),
     rotation_arc_ball |-> FALSE]

\* a visibility with one handle per primitive kind, the arcball included
VisibilityDrag ==
    [translation_arrow |-> AxisConfig(TRUE, FALSE, FALSE, FALSE),
     translation_plane |-> AxisConfig(FALSE, FALSE, FALSE, FALSE),
     scaling_arrow     |-> AxisConfig(TRUE, FALSE, FALSE, FALSE),
     scaling_plane     |-> AxisConfig(FALSE, FALSE, FALSE, TRUE),
     rotation_arc      |-> AxisConfig(TRUE, FALSE, FALSE, FALSE),
     rotation_arc_ball |-> TRUE]

\* a visibility whose translation planes and scaling planes differ
VisibilityPlanes ==
    [translation_arrow |-> AxisConfig(FALSE, FALSE, FALSE, FALSE),
     translation_plane |-> AxisConfig(TRUE, FALSE, FALSE, FALSE),
     scaling_arrow     |-> AxisConfig(FALSE, FALSE, FALSE, FALSE),
     scaling_plane     |-> AxisConfig(FALSE, TRUE, FALSE, FALSE),
     rotation_arc      |-> AxisConfig(FALSE, FALSE, FALSE, FALSE),
     rotation_arc_ball |-> FALSE]

\* GizmoConfig: the fields the orchestrator reads
GizmoConfig(viewport, modes, orient, pivot, visibility) ==
    [viewport |-> viewport, modes |-> modes, orientation |-> orient,
     pivot_point |-> pivot, gizmo_visibility |-> visibility]

\* GizmoConfig::default
GizmoConfigDefault ==
    GizmoConfig("nonfinite", {"Rotate"}, "Global", "MedianPoint", VisibilityDefault)

\* Rect::is_finite of the configured viewport: "finite" is a rectangle with
\* an area, "empty" one of zero width or height, "nonfinite" Rect::NOTHING
viewport_is_finite(c) == c.viewport # "nonfinite"

\* orientation returning the configured value whatever the modes are
orientation_Configured(c) == c.orientation

\* GizmoConfig::orientation
orientation(c) ==
    IF "Scale" \in c.modes THEN "Local" ELSE c.orientation

\* PreparedGizmoConfig: GizmoConfig plus the aggregate transform
Prepared(c, s, r, t) ==
    [viewport |-> c.viewport, modes |-> c.modes, orientation |-> c.orientation,
     pivot_point |-> c.pivot_point, gizmo_visibility |-> c.gizmo_visibility,
     scale |-> s, rotation |-> r, translation |-> t]

\* PreparedGizmoConfig::default
PreparedDefault == Prepared(GizmoConfigDefault, VZero, QuatIdentity, VZero)

\* PreparedGizmoConfig::as_transform
as_transform(p) == Transform(p.scale, p.rotation, p.translation)

\* PreparedGizmoConfig::update_transform
update_transform(p, t) ==
    [p EXCEPT !.translation = t.translation, !.rotation = t.rotation,
              !.scale = t.scale]

\* PreparedGizmoConfig::update_for_config
update_for_config(p, c) ==
    update_transform(Prepared(c, p.scale, p.rotation, p.translation),
                     as_transform(p))

RECURSIVE SumScale(_, _)
SumScale(targets, n) ==
    IF n = 0 THEN VZero ELSE VAdd(SumScale(targets, n - 1), targets[n].scale)
RECURSIVE SumTranslation(_, _)
SumTranslation(targets, n) ==
    IF n = 0 THEN VZero
    ELSE VAdd(SumTranslation(targets, n - 1), targets[n].translation)

\* update_for_targets with the translation sum started from the previous
\* aggregate instead of zero
update_for_targets_Accumulating(p, targets) ==
    LET target_count == Len(targets)
        scale == IF target_count = 0 THEN VOne
                 ELSE VDiv(SumScale(targets, target_count), target_count)
        translation == IF target_count = 0 THEN p.translation
                       ELSE VAdd(p.translation,
                                 VDiv(SumTranslation(targets, target_count),
                                      target_count))
        rotation == IF target_count = 0 THEN QuatIdentity
                    ELSE targets[target_count].rotation
    IN  update_transform(p, Transform(scale, rotation, translation))

\* update_for_targets taking the rotation of the first target
update_for_targets_FirstRotation(p, targets) ==
    LET target_count == Len(targets)
        scale == IF target_count = 0 THEN VOne
                 ELSE VDiv(SumScale(targets, target_count), target_count)
        translation == IF target_count = 0 THEN VZero
                       ELSE VDiv(SumTranslation(targets, target_count), target_count)
        rotation == IF target_count = 0 THEN QuatIdentity
                    ELSE targets[1].rotation
    IN  update_transform(p, Transform(scale, rotation, translation))

\* PreparedGizmoConfig::update_for_targets
update_for_targets(p, targets) ==
    LET target_count == Len(targets)
        scale == IF target_count = 0 THEN VOne
                 ELSE VDiv(SumScale(targets, target_count), target_count)
        translation == IF target_count = 0 THEN VZero
                       ELSE VDiv(SumTranslation(targets, target_count), target_count)
        rotation == IF target_count = 0 THEN QuatIdentity
                    ELSE targets[target_count].rotation
    IN  update_transform(p, Transform(scale, rotation, translation))

---------------------------------------------------------------------------
(* Subgizmos *)

\* identifier of a subgizmo, a function of its kind and parameters
SubGizmoId(kind, direction, transform_kind) ==
    (CASE kind = "Rotation" -> 100 [] kind = "Arcball" -> 200
       [] kind = "Translation" -> 300 [] kind = "Scale" -> 400)
    + (CASE direction = "X" -> 10 [] direction = "Y" -> 20
         [] direction = "Z" -> 30 [] direction = "View" -> 40)
    + (IF transform_kind = "Plane" THEN 1 ELSE 0)

\* XSubGizmo::new(config, params): unfocused, inactive, holding config
NewSubGizmo(kind, direction, transform_kind, p) ==
    [kind |-> kind, direction |-> direction, transform_kind |-> transform_kind,
     id |-> SubGizmoId(kind, direction, transform_kind),
     focused |-> FALSE, active |-> FALSE, config |-> p]

\* the items of params whose direction the axis configuration shows
Visible(params, axis_config) ==
    SelectSeq(params, LAMBDA prm : is_active(axis_config, prm[1]))

Build(kind, params, p) ==
    [i \in 1..Len(params) |-> NewSubGizmo(kind, params[i][1], params[i][2], p)]

\* Gizmo::add_rotation
add_rotation(p) ==
    Build("Rotation",
          Visible(<<<<"X", "Axis">>, <<"Y", "Axis">>, <<"Z", "Axis">>,
                    <<"View", "Axis">>>>, p.gizmo_visibility.rotation_arc), p)
    \o (IF p.gizmo_visibility.rotation_arc_ball
        THEN <<NewSubGizmo("Arcball", "View", "Axis", p)>> ELSE <<>>)

\* Gizmo::add_translation
add_translation(p) ==
    Build("Translation",
          Visible(<<<<"X", "Axis">>, <<"Y", "Axis">>, <<"Z", "Axis">>,
                    <<"View", "Plane">>>>, p.gizmo_visibility.translation_arrow), p)
    \o (IF "Scale" \notin p.modes
        THEN Build("Translation",
                   Visible(<<<<"X", "Plane">>, <<"Y", "Plane">>, <<"Z", "Plane">>>>,
                           p.gizmo_visibility.translation_plane), p)
        ELSE <<>>)

\* add_scale adding the uniform-scale subgizmo beside other modes as well
add_scale_AlwaysUniform(p) ==
    Build("Scale",
          Visible(<<<<"X", "Axis">>, <<"Y", "Axis">>, <<"Z", "Axis">>>>,
                  p.gizmo_visibility.scaling_arrow), p)
    \o (IF p.gizmo_visibility.scaling_plane.view
        THEN <<NewSubGizmo("Scale", "View", "Plane", p)>> ELSE <<>>)
    \o (IF "Translate" \notin p.modes
        THEN Build("Scale",
                   Visible(<<<<"X", "Plane">>, <<"Y", "Plane">>, <<"Z", "Plane">>>>,
                           p.gizmo_visibility.translation_plane), p)
        ELSE <<>>)

\* Gizmo::add_scale
add_scale(p) ==
    Build("Scale",
          Visible(<<<<"X", "Axis">>, <<"Y", "Axis">>, <<"Z", "Axis">>>>,
                  p.gizmo_visibility.scaling_arrow), p)
    \o (IF Cardinality(p.modes) = 1 /\ p.gizmo_visibility.scaling_plane.view
        THEN <<NewSubGizmo("Scale", "View", "Plane", p)>> ELSE <<>>)
    \o (IF "Translate" \notin p.modes
        THEN Build("Scale",
                   Visible(<<<<"X", "Plane">>, <<"Y", "Plane">>, <<"Z", "Plane">>>>,
                           p.gizmo_visibility.translation_plane), p)
        ELSE <<>>)

\* the loop of Gizmo::update_config over the enabled modes, in EnumSet order
BuildSubgizmos(p) ==
    (IF "Rotate" \in p.modes THEN add_rotation(p) ELSE <<>>)
    \o (IF "Translate" \in p.modes THEN add_translation(p) ELSE <<>>)
    \o (IF "Scale" \in p.modes THEN add_scale(p) ELSE <<>>)

\* Gizmo::pointer_ray: the ray is identified with the cursor position
pointer_ray(p, cursor_pos) == [screen_pos |-> cursor_pos]

\* where on the (one-dimensional) screen a handle sits, relative to the pivot
HandleOffset(sg) ==
    IF sg.kind = "Arcball" \/ sg.direction = "View" THEN 0
    ELSE (IF sg.transform_kind = "Plane" THEN -1 ELSE 1)
         * (CASE sg.direction = "X" -> 1 [] sg.direction = "Y" -> 2
              [] sg.direction = "Z" -> 3)

\* SubGizmo::pick(ray): the hit distance, from the subgizmo's last-received
\* configuration and the ray
pick(sg, ray) ==
    IF (ray.screen_pos - HandleOffset(sg)) * sg.config.translation[4]
           = sg.config.translation[1]
    THEN Some(CASE sg.kind = "Translation" -> 2 [] sg.kind = "Scale" -> 2
                [] sg.kind = "Rotation" -> 3 [] sg.kind = "Arcball" -> 4)
    ELSE None

\* the vector a direction stands for
DirectionVec(direction) ==
    CASE direction = "X" -> EX [] direction = "Y" -> EY
      [] direction = "Z" -> EZ [] direction = "View" -> EZ

\* the two axes a plane handle moves along
PlaneVec(direction) == VSub(VOne, DirectionVec(direction))

\* SubGizmo::update(ray): the results the active subgizmo may produce in one
\* frame; None when the ray is degenerate
SubGizmoUpdate(sg, ray) ==
    {None} \cup
    CASE sg.kind = "Translation" ->
           {Some([kind |-> "Translation", delta |-> VScale(k, v)]) :
               k \in {0, 2},
               v \in {IF sg.transform_kind = "Axis" THEN DirectionVec(sg.direction)
                      ELSE PlaneVec(sg.direction)}}
      [] sg.kind = "Scale" ->
           {Some([kind |-> "Scale", total |-> VAdd(VOne, VScale(k, v))]) :
               k \in {0, 1, 2},
               v \in {IF sg.direction = "View" THEN VOne
                      ELSE IF sg.transform_kind = "Axis" THEN DirectionVec(sg.direction)
                      ELSE PlaneVec(sg.direction)}}
      [] sg.kind = "Rotation" ->
           {Some([kind |-> "Rotation", axis |-> DirectionVec(sg.direction),
                  delta |-> k, is_view_axis |-> sg.direction = "View"]) :
               k \in {0, 1}}
      [] sg.kind = "Arcball" ->
           {Some([kind |-> "Arcball", delta |-> q]) : q \in {QuatIdentity, RotX}}

\* min_by keeping the later of two hits at equal distance
RECURSIVE min_by_LastOfEqual(_, _, _)
min_by_LastOfEqual(subs, ray, n) ==
    IF n = 0 THEN None
    ELSE LET first == min_by_LastOfEqual(subs, ray, n - 1)
             second == pick(subs[n], ray)
         IN  IF IsNone(second) THEN first
             ELSE IF IsNone(first) THEN Some(n)
             ELSE IF pick(subs[first.val], ray).val >= second.val THEN Some(n)
             ELSE first

pick_subgizmo_LastOfEqual(subs, ray) == min_by_LastOfEqual(subs, ray, Len(subs))

\* filter_map(pick).min_by(partial_cmp) over the first n subgizmos: the kept
\* hit is replaced only by one that compares strictly smaller
RECURSIVE min_by(_, _, _)
min_by(subs, ray, n) ==
    IF n = 0 THEN None
    ELSE LET first == min_by(subs, ray, n - 1)
             second == pick(subs[n], ray)
         IN  IF IsNone(second) THEN first
             ELSE IF IsNone(first) THEN Some(n)
             ELSE IF pick(subs[first.val], ray).val > second.val THEN Some(n)
             ELSE first

\* Gizmo::pick_subgizmo: index of the closest hit, the first of equal minima
pick_subgizmo(subs, ray) == min_by(subs, ray, Len(subs))

\* Gizmo::active_subgizmo_mut: index of the first subgizmo with the active id
active_subgizmo_mut(subs, active_id) ==
    IF IsNone(active_id) THEN None
    ELSE LET found == {i \in 1..Len(subs) : subs[i].id = active_id.val}
         IN  IF found = {} THEN None
             ELSE Some(CHOOSE i \in found : \A j \in found : i <= j)

---------------------------------------------------------------------------
(* Folding a result into transforms *)

\* Gizmo::update_rotation_quat
update_rotation_quat(p, transform, delta) ==
    LET translation ==
            IF p.pivot_point = "MedianPoint"
            THEN VAdd(p.translation,
                      QuatMulVec(delta, VSub(transform.translation, p.translation)))
            ELSE transform.translation
    IN  Transform(transform.scale, QuatMul(delta, transform.rotation), translation)

\* Gizmo::update_rotation
update_rotation(p, transform, axis, delta, is_view_axis) ==
    LET axis1 == IF orientation(p) = "Local" /\ ~is_view_axis
                 THEN QuatMulVec(transform.rotation, axis)
                 ELSE axis
    IN  update_rotation_quat(p, transform, from_axis_angle(axis1, delta))

\* update_translation adding the delta to the drag-start translation
update_translation_FromStart(p, delta, transform, start_transform) ==
    LET delta1 == IF orientation(p) = "Global" THEN delta
                  ELSE QuatMulVec(start_transform.rotation, delta)
    IN  Transform(start_transform.scale, start_transform.rotation,
                  VAdd(delta1, start_transform.translation))

\* Gizmo::update_translation
update_translation(p, delta, transform, start_transform) ==
    LET delta1 == IF orientation(p) = "Global" THEN delta
                  ELSE QuatMulVec(start_transform.rotation, delta)
    IN  Transform(start_transform.scale, start_transform.rotation,
                  VAdd(delta1, transform.translation))

\* update_scale multiplying the total into the scale passed in the call
update_scale_FromCurrent(transform, start_transform, scale) ==
    Transform(VMul(transform.scale, scale), transform.rotation,
              transform.translation)

\* Gizmo::update_scale
update_scale(transform, start_transform, scale) ==
    Transform(VMul(start_transform.scale, scale), transform.rotation,
              transform.translation)

Min(a, b) == IF a <= b THEN a ELSE b

\* update_transforms_with_result taking the transforms passed in the call as
\* the baseline of a Scale result
update_transforms_with_result_NoBaseline(p, result, transforms, start_transforms) ==
    [i \in 1..Min(Len(transforms), Len(start_transforms)) |->
        CASE result.kind = "Rotation" ->
               update_rotation(p, transforms[i], result.axis, result.delta,
                               result.is_view_axis)
          [] result.kind = "Translation" ->
               update_translation(p, result.delta, transforms[i], start_transforms[i])
          [] result.kind = "Scale" ->
               update_scale(transforms[i], transforms[i], result.total)
          [] result.kind = "Arcball" ->
               update_rotation_quat(p, transforms[i], result.delta)]

\* Gizmo::update_transforms_with_result
update_transforms_with_result(p, result, transforms, start_transforms) ==
    [i \in 1..Min(Len(transforms), Len(start_transforms)) |->
        CASE result.kind = "Rotation" ->
               update_rotation(p, transforms[i], result.axis, result.delta,
                               result.is_view_axis)
          [] result.kind = "Translation" ->
               update_translation(p, result.delta, transforms[i], start_transforms[i])
          [] result.kind = "Scale" ->
               update_scale(transforms[i], start_transforms[i], result.total)
          [] result.kind = "Arcball" ->
               update_rotation_quat(p, transforms[i], result.delta)]

\* Gizmo::update_config_with_result
update_config_with_result(p, start_transform, result) ==
    update_transform(p,
        update_transforms_with_result(p, result, <<as_transform(p)>>,
                                      <<start_transform>>)[1])

---------------------------------------------------------------------------
(* Draw data *)

\* GizmoDrawData::default
DrawDataDefault == [vertices |-> <<>>, colors |-> <<>>, indices |-> <<>>]

\* add_assign appending the right-hand indices as they are
add_assign_NoRebase(a, b) ==
    [vertices |-> a.vertices \o b.vertices,
     colors |-> a.colors \o b.colors,
     indices |-> a.indices \o b.indices]

\* AddAssign for GizmoDrawData
add_assign(a, b) ==
    LET index_offset == Len(a.vertices)
    IN  [vertices |-> a.vertices \o b.vertices,
         colors |-> a.colors \o b.colors,
         indices |-> a.indices \o [k \in 1..Len(b.indices) |-> index_offset + b.indices[k]]]

\* SubGizmo::draw: one triangle at the handle, coloured by the flags
SubGizmoDraw(sg) ==
    LET x == FAdd(Comp(sg.config.translation, 1), F(HandleOffset(sg)))
        c == IF sg.focused THEN "highlight" ELSE "inactive"
    IN  [vertices |-> <<<<x, sg.id>>, <<FAdd(x, F(1)), sg.id>>, <<x, sg.id + 1>>>>,
         colors |-> <<c, c, c>>,
         indices |-> <<0, 1, 2>>]

\* Add for GizmoDrawData
add(a, b) == add_assign(a, b)

RECURSIVE DrawLoop(_, _, _)
DrawLoop(subs, active_id, n) ==
    IF n = 0 THEN DrawDataDefault
    ELSE IF IsNone(active_id) \/ subs[n].active
         THEN add_assign(DrawLoop(subs, active_id, n - 1), SubGizmoDraw(subs[n]))
         ELSE DrawLoop(subs, active_id, n - 1)

\* draw adding every subgizmo's data whether or not one is active
draw_IgnoresActive(g) ==
    IF ~viewport_is_finite(g.config) THEN DrawDataDefault
    ELSE DrawLoop(g.subgizmos, None, Len(g.subgizmos))

\* Gizmo::draw
draw(g) ==
    IF ~viewport_is_finite(g.config) THEN DrawDataDefault
    ELSE DrawLoop(g.subgizmos, g.active_subgizmo_id, Len(g.subgizmos))

---------------------------------------------------------------------------
(* The Gizmo *)

Gizmo(p, subs, active_id, tst, gst) ==
    [config |-> p, subgizmos |-> subs, active_subgizmo_id |-> active_id,
     target_start_transforms |-> tst, gizmo_start_transform |-> gst]

\* Transform::default and Gizmo::default
TransformDefault == Transform(VZero, QuatIdentity, VZero)
GizmoDefault == Gizmo(PreparedDefault, <<>>, None, <<>>, TransformDefault)

\* update_config clearing the collection but not the stored identifier
update_config_KeepsActive(g, c) ==
    LET changed == c.modes # g.config.modes
                   \/ c.gizmo_visibility # g.config.gizmo_visibility
        subs1 == IF changed THEN <<>> ELSE g.subgizmos
        config1 == update_for_config(g.config, c)
        subs2 == IF subs1 = <<>> THEN BuildSubgizmos(config1) ELSE subs1
    IN  Gizmo(config1, subs2, g.active_subgizmo_id, g.target_start_transforms,
              g.gizmo_start_transform)

\* update_config rebuilding only when the modes change
update_config_ModesOnly(g, c) ==
    LET changed == c.modes # g.config.modes
        subs1 == IF changed THEN <<>> ELSE g.subgizmos
        active1 == IF changed THEN None ELSE g.active_subgizmo_id
        config1 == update_for_config(g.config, c)
        subs2 == IF subs1 = <<>> THEN BuildSubgizmos(config1) ELSE subs1
    IN  Gizmo(config1, subs2, active1, g.target_start_transforms,
              g.gizmo_start_transform)

\* Gizmo::update_config
update_config(g, c) ==
    LET changed == c.modes # g.config.modes
                   \/ c.gizmo_visibility # g.config.gizmo_visibility
        subs1 == IF changed THEN <<>> ELSE g.subgizmos
        active1 == IF changed THEN None ELSE g.active_subgizmo_id
        config1 == update_for_config(g.config, c)
        subs2 == IF subs1 = <<>> THEN BuildSubgizmos(config1) ELSE subs1
    IN  Gizmo(config1, subs2, active1, g.target_start_transforms,
              g.gizmo_start_transform)

\* Gizmo::new
new(c) == update_config(GizmoDefault, c)

\* Gizmo::is_focused
is_focused(g) == \E i \in 1..Len(g.subgizmos) : g.subgizmos[i].focused

\* SubGizmo::update_config on every subgizmo
SetConfig(subs, p) == [i \in 1..Len(subs) |-> [subs[i] EXCEPT !.config = p]]

\* UpdatePick activating the picked subgizmo on dragging instead of drag_started
UpdatePick_StartsOnDragging(g, interaction, targets) ==
    LET config1 == IF IsNone(g.active_subgizmo_id)
                   THEN update_for_targets(g.config, targets) ELSE g.config
        subs1 == [i \in 1..Len(g.subgizmos) |->
                     [g.subgizmos[i] EXCEPT !.config = config1, !.focused = FALSE]]
        ray == pointer_ray(config1, interaction.cursor_pos)
        picked == IF IsNone(g.active_subgizmo_id) THEN pick_subgizmo(subs1, ray)
                  ELSE None
        subs2 == IF IsSome(picked)
                 THEN [subs1 EXCEPT ![picked.val].focused = TRUE] ELSE subs1
        started == IsSome(picked) /\ interaction.dragging
    IN  Gizmo(config1, subs2,
              IF started THEN Some(subs2[picked.val].id) ELSE g.active_subgizmo_id,
              IF started THEN targets ELSE g.target_start_transforms,
              IF started THEN as_transform(config1) ELSE g.gizmo_start_transform)

\* UpdatePick picking, and taking new snapshots, also while a drag is active
UpdatePick_PicksWhileActive(g, interaction, targets) ==
    LET config1 == IF IsNone(g.active_subgizmo_id)
                   THEN update_for_targets(g.config, targets) ELSE g.config
        subs1 == [i \in 1..Len(g.subgizmos) |->
                     [g.subgizmos[i] EXCEPT !.config = config1, !.focused = FALSE]]
        ray == pointer_ray(config1, interaction.cursor_pos)
        picked == pick_subgizmo(subs1, ray)
        subs2 == IF IsSome(picked)
                 THEN [subs1 EXCEPT ![picked.val].focused = TRUE] ELSE subs1
        started == IsSome(picked) /\ interaction.drag_started
    IN  Gizmo(config1, subs2,
              IF started THEN Some(subs2[picked.val].id) ELSE g.active_subgizmo_id,
              IF started THEN targets ELSE g.target_start_transforms,
              IF started THEN as_transform(config1) ELSE g.gizmo_start_transform)

\* UpdatePick leaving the focus flags of the last frame in place
UpdatePick_KeepsFocus(g, interaction, targets) ==
    LET config1 == IF IsNone(g.active_subgizmo_id)
                   THEN update_for_targets(g.config, targets) ELSE g.config
        subs1 == [i \in 1..Len(g.subgizmos) |->
                     [g.subgizmos[i] EXCEPT !.config = config1]]
        ray == pointer_ray(config1, interaction.cursor_pos)
        picked == IF IsNone(g.active_subgizmo_id) THEN pick_subgizmo(subs1, ray)
                  ELSE None
        subs2 == IF IsSome(picked)
                 THEN [subs1 EXCEPT ![picked.val].focused = TRUE] ELSE subs1
        started == IsSome(picked) /\ interaction.drag_started
    IN  Gizmo(config1, subs2,
              IF started THEN Some(subs2[picked.val].id) ELSE g.active_subgizmo_id,
              IF started THEN targets ELSE g.target_start_transforms,
              IF started THEN as_transform(config1) ELSE g.gizmo_start_transform)

\* Gizmo::update up to the picking step: the targets are folded into the
\* configuration unless a subgizmo is active, every subgizmo receives the
\* configuration and loses focus, and with no active subgizmo the picked one
\* is focused and, on drag_started, becomes the active one
UpdatePick(g, interaction, targets) ==
    LET config1 == IF IsNone(g.active_subgizmo_id)
                   THEN update_for_targets(g.config, targets) ELSE g.config
        subs1 == [i \in 1..Len(g.subgizmos) |->
                     [g.subgizmos[i] EXCEPT !.config = config1, !.focused = FALSE]]
        ray == pointer_ray(config1, interaction.cursor_pos)
        picked == IF IsNone(g.active_subgizmo_id) THEN pick_subgizmo(subs1, ray)
                  ELSE None
        subs2 == IF IsSome(picked)
                 THEN [subs1 EXCEPT ![picked.val].focused = TRUE] ELSE subs1
        started == IsSome(picked) /\ interaction.drag_started
    IN  Gizmo(config1, subs2,
              IF started THEN Some(subs2[picked.val].id) ELSE g.active_subgizmo_id,
              IF started THEN targets ELSE g.target_start_transforms,
              IF started THEN as_transform(config1) ELSE g.gizmo_start_transform)

\* the outcomes SubGizmo::update can have after picking (g1); it is called
\* only on the active subgizmo and only while dragging
SubGizmoOutcomes(g1, interaction) ==
    LET act == active_subgizmo_mut(g1.subgizmos, g1.active_subgizmo_id)
    IN  IF IsSome(act) /\ interaction.dragging
        THEN SubGizmoUpdate(g1.subgizmos[act.val],
                            pointer_ray(g1.config, interaction.cursor_pos))
        ELSE {None}

\* UpdateActive whose release leaves the subgizmo flagged active
UpdateActive_KeepsFlag(g1, interaction) ==
    LET act == active_subgizmo_mut(g1.subgizmos, g1.active_subgizmo_id)
    IN  IF IsNone(act) THEN g1
        ELSE IF interaction.dragging
        THEN [g1 EXCEPT !.subgizmos[act.val].active = TRUE,
                        !.subgizmos[act.val].focused = TRUE]
        ELSE [g1 EXCEPT !.subgizmos[act.val].focused = FALSE,
                        !.active_subgizmo_id = None]

\* UpdateActive whose release leaves active_subgizmo_id set
UpdateActive_KeepsId(g1, interaction) ==
    LET act == active_subgizmo_mut(g1.subgizmos, g1.active_subgizmo_id)
    IN  IF IsNone(act) THEN g1
        ELSE IF interaction.dragging
        THEN [g1 EXCEPT !.subgizmos[act.val].active = TRUE,
                        !.subgizmos[act.val].focused = TRUE]
        ELSE [g1 EXCEPT !.subgizmos[act.val].active = FALSE,
                        !.subgizmos[act.val].focused = FALSE]

\* UpdateActive whose dragging branch does not flag the subgizmo active
UpdateActive_NoFlag(g1, interaction) ==
    LET act == active_subgizmo_mut(g1.subgizmos, g1.active_subgizmo_id)
    IN  IF IsNone(act) THEN g1
        ELSE IF interaction.dragging
        THEN [g1 EXCEPT !.subgizmos[act.val].focused = TRUE]
        ELSE [g1 EXCEPT !.subgizmos[act.val].active = FALSE,
                        !.subgizmos[act.val].focused = FALSE,
                        !.active_subgizmo_id = None]

\* Gizmo::update after picking: drive or release the active subgizmo
UpdateActive(g1, interaction) ==
    LET act == active_subgizmo_mut(g1.subgizmos, g1.active_subgizmo_id)
    IN  IF IsNone(act) THEN g1
        ELSE IF interaction.dragging
        THEN [g1 EXCEPT !.subgizmos[act.val].active = TRUE,
                        !.subgizmos[act.val].focused = TRUE]
        ELSE [g1 EXCEPT !.subgizmos[act.val].active = FALSE,
                        !.subgizmos[act.val].focused = FALSE,
                        !.active_subgizmo_id = None]

\* Gizmo::update when the active subgizmo gave no result
UpdateNoResult(g2, targets) ==
    LET config2 == update_for_targets(g2.config, targets)
    IN  [g2 EXCEPT !.config = config2, !.subgizmos = SetConfig(g2.subgizmos, config2)]

\* Gizmo::update when the active subgizmo gave a result
UpdateWithResult(g2, result) ==
    [g2 EXCEPT !.config =
        update_config_with_result(g2.config, g2.gizmo_start_transform, result)]

\* Gizmo::update from the active-subgizmo step on; sub_result is what
\* SubGizmo::update returns if it is called.  Yields the gizmo after the call
\* and the returned value.
UpdateFinish(g1, interaction, targets, sub_result) ==
    LET g2 == UpdateActive(g1, interaction)
    IN  IF IsNone(sub_result)
        THEN [gizmo |-> UpdateNoResult(g2, targets), ret |-> None]
        ELSE LET g3 == UpdateWithResult(g2, sub_result.val)
             IN  [gizmo |-> g3,
                  ret |-> Some([result |-> sub_result.val,
                                transforms |->
                                   update_transforms_with_result(
                                       g3.config, sub_result.val, targets,
                                       g3.target_start_transforms)])]

\* Gizmo::update
update(g, interaction, targets, sub_result) ==
    IF ~viewport_is_finite(g.config) THEN [gizmo |-> g, ret |-> None]
    ELSE UpdateFinish(UpdatePick(g, interaction, targets), interaction, targets,
                      sub_result)

\* Calls without the early return on a non-finite viewport
Calls_NoViewportCheck(g, interaction, targets) ==
    LET g1 == UpdatePick(g, interaction, targets)
    IN  {UpdateFinish(g1, interaction, targets, sub_result) :
            sub_result \in SubGizmoOutcomes(g1, interaction)}

\* every outcome of Gizmo::update(interaction, targets) on g, over the results
\* SubGizmo::update may return
Calls(g, interaction, targets) ==
    IF ~viewport_is_finite(g.config) THEN {[gizmo |-> g, ret |-> None]}
    ELSE LET g1 == UpdatePick(g, interaction, targets)
         IN  {UpdateFinish(g1, interaction, targets, sub_result) :
                 sub_result \in SubGizmoOutcomes(g1, interaction)}

---------------------------------------------------------------------------
(* Inputs *)

TA == Transform(VOne, QuatIdentity, VZero)
TB == Transform(V(3, 1, 1), RotZ, V(2, 0, 0))
TransformSet == {TA, TB}

TargetLists == UNION {[1..n -> TransformSet] : n \in 0..MaxTargets}

\* cursor positions on the screen axis
CursorSet == {1, 2}

Interactions ==
    [cursor_pos : CursorSet, drag_started : BOOLEAN, dragging : BOOLEAN]

\* the configurations the host passes
ConfigSet ==
    {GizmoConfig("finite", {"Translate"}, "Global", "MedianPoint", VisibilityFew),
     GizmoConfig("finite", {"Translate"}, "Local", "MedianPoint", VisibilityFew),
     GizmoConfig("nonfinite", {"Translate"}, "Global", "MedianPoint", VisibilityFew),
     GizmoConfig("finite", {"Translate", "Scale"}, "Global", "MedianPoint",
                 VisibilityFew),
     GizmoConfig("finite", {"Rotate"}, "Local", "IndividualOrigins", VisibilityFew)}

InRange(v) ==
    /\ v[4] <= MaxDen
    /\ \A k \in 1..3 : -MaxCoord * v[4] <= v[k] /\ v[k] <= MaxCoord * v[4]

---------------------------------------------------------------------------
(* Actions *)

\* the gizmo as it is now
Cur == Gizmo(config, subgizmos, active_subgizmo_id, target_start_transforms,
             gizmo_start_transform)

Becomes(g) ==
    /\ config' = g.config
    /\ subgizmos' = g.subgizmos
    /\ active_subgizmo_id' = g.active_subgizmo_id
    /\ target_start_transforms' = g.target_start_transforms
    /\ gizmo_start_transform' = g.gizmo_start_transform

\* the host calls Gizmo::update_config(c)
UpdateConfig(c) ==
    /\ \E g \in {update_config(Cur, c)} :
          /\ Becomes(g)
          /\ gesture' = IF gesture = "dragging" /\ IsNone(g.active_subgizmo_id)
                        THEN "released" ELSE gesture
    /\ last' = [op |-> "update_config", drag_started |-> FALSE, dragging |-> FALSE]
    /\ UNCHANGED <<ret, host, accum, draw_data>>

\* the host calls Gizmo::update(interaction, targets)
Update(interaction, targets) ==
    \E r \in Calls(Cur, interaction, targets) :
        /\ InRange(r.gizmo.config.translation)
        /\ Becomes(r.gizmo)
        /\ ret' = r.ret
        /\ last' = [op |-> "update", drag_started |-> interaction.drag_started,
                    dragging |-> interaction.dragging]
        /\ UNCHANGED <<host, accum, gesture, draw_data>>

Init ==
    /\ \E c \in ConfigSet : \E g \in {new(c)} :
          /\ config = g.config
          /\ subgizmos = g.subgizmos
          /\ active_subgizmo_id = g.active_subgizmo_id
          /\ target_start_transforms = g.target_start_transforms
          /\ gizmo_start_transform = g.gizmo_start_transform
    /\ ret = None
    /\ last = [op |-> "new", drag_started |-> FALSE, dragging |-> FALSE]
    /\ host = <<>>
    /\ accum = [start |-> <<>>, sum |-> <<>>, passed |-> <<>>]
    /\ gesture = "none"
    /\ draw_data = DrawDataDefault

Next ==
    \/ \E c \in ConfigSet : UpdateConfig(c)
    \/ \E interaction \in Interactions, targets \in TargetLists :
          Update(interaction, targets)

Spec == Init /\ [][Next]_vars

---------------------------------------------------------------------------
(* A host that passes its own targets and writes every result back *)

\* the host loop is run with translation handles under a finite viewport
HostConfigSet ==
    {c \in ConfigSet : c.modes = {"Translate"} /\ viewport_is_finite(c)}

\* the delta of a Translation result as it is applied to a target whose
\* rotation at drag start was start_rotation
OrientedDelta(p, result, start_rotation) ==
    IF result.kind # "Translation" THEN VZero
    ELSE IF ("Scale" \in p.modes) \/ p.orientation = "Local"
         THEN QuatMulVec(start_rotation, result.delta)
         ELSE result.delta

\* the host writes the returned transforms over its own, pair by pair: a
\* transform without a returned partner keeps its value
WriteBack(new_transforms, transforms) ==
    [k \in 1..Len(transforms) |->
        IF k <= Len(new_transforms) THEN new_transforms[k] ELSE transforms[k]]

\* one frame of the host loop: update(interaction, host), then write back
HostUpdate(interaction) ==
    \E r \in Calls(Cur, interaction, host) :
        LET started == /\ viewport_is_finite(config)
                       /\ IsNone(active_subgizmo_id)
                       /\ IsSome(UpdatePick(Cur, interaction, host).active_subgizmo_id)
            start == IF started THEN host ELSE accum.start
            sum0 == IF started THEN [k \in 1..Len(host) |-> VZero] ELSE accum.sum
            sum1 == IF IsSome(r.ret)
                    THEN [k \in 1..Len(sum0) |->
                            VAdd(sum0[k], OrientedDelta(config, r.ret.val.result,
                                                        start[k].rotation))]
                    ELSE sum0
            host1 == IF IsSome(r.ret) THEN WriteBack(r.ret.val.transforms, host)
                     ELSE host
        IN  /\ InRange(r.gizmo.config.translation)
            /\ \A k \in 1..Len(host1) : InRange(host1[k].translation)
            /\ Becomes(r.gizmo)
            /\ ret' = r.ret
            /\ last' = [op |-> "update", drag_started |-> interaction.drag_started,
                        dragging |-> interaction.dragging]
            /\ host' = host1
            /\ accum' = [start |-> start, sum |-> sum1, passed |-> host]
            /\ gesture' = IF IsSome(r.gizmo.active_subgizmo_id) THEN "dragging"
                          ELSE IF started \/ IsSome(active_subgizmo_id) THEN "released"
                          ELSE gesture
            /\ UNCHANGED draw_data

\* between gestures the host replaces its targets
HostEdit(targets) ==
    /\ gesture # "dragging"
    /\ targets # host
    /\ host' = targets
    /\ gesture' = "none"
    /\ last' = [op |-> "host_edit", drag_started |-> FALSE, dragging |-> FALSE]
    /\ UNCHANGED <<gizmo, ret, accum, draw_data>>

InitHost ==
    /\ \E c \in HostConfigSet : \E g \in {new(c)} :
          /\ config = g.config
          /\ subgizmos = g.subgizmos
          /\ active_subgizmo_id = g.active_subgizmo_id
          /\ target_start_transforms = g.target_start_transforms
          /\ gizmo_start_transform = g.gizmo_start_transform
    /\ ret = None
    /\ last = [op |-> "new", drag_started |-> FALSE, dragging |-> FALSE]
    /\ host \in TargetLists
    /\ accum = [start |-> <<>>, sum |-> <<>>, passed |-> <<>>]
    /\ gesture = "none"
    /\ draw_data = DrawDataDefault

NextHost ==
    \/ \E c \in HostConfigSet : UpdateConfig(c)
    \/ \E interaction \in Interactions : HostUpdate(interaction)
    \/ \E targets \in TargetLists : HostEdit(targets)

SpecHost == InitHost /\ [][NextHost]_vars

---------------------------------------------------------------------------
(* The host loop with several targets and every kind of handle *)

DragConfigSet ==
    {GizmoConfig("finite", {"Scale"}, "Global", "MedianPoint", VisibilityDrag),
     GizmoConfig("finite", {"Rotate"}, "Local", "MedianPoint", VisibilityDrag),
     GizmoConfig("finite", {"Rotate"}, "Global", "IndividualOrigins", VisibilityDrag),
     GizmoConfig("finite", {"Translate"}, "Local", "MedianPoint", VisibilityDrag),
     GizmoConfig("finite", {"Translate", "Scale"}, "Global", "MedianPoint",
                 VisibilityDrag),
     GizmoConfig("finite", {"Rotate", "Translate"}, "Global", "MedianPoint",
                 VisibilityDrag)}

\* a target half a unit from the mean of its neighbours
TC == Transform(VOne, RotX, V(1, 0, 0))

DragTargetLists ==
    UNION {[1..n -> TransformSet \cup {TC}] : n \in 0..MaxDragTargets}

InitDrag ==
    /\ \E c \in DragConfigSet : \E g \in {new(c)} :
          /\ config = g.config
          /\ subgizmos = g.subgizmos
          /\ active_subgizmo_id = g.active_subgizmo_id
          /\ target_start_transforms = g.target_start_transforms
          /\ gizmo_start_transform = g.gizmo_start_transform
    /\ ret = None
    /\ last = [op |-> "new", drag_started |-> FALSE, dragging |-> FALSE]
    /\ host \in DragTargetLists
    /\ accum = [start |-> <<>>, sum |-> <<>>, passed |-> <<>>]
    /\ gesture = "none"
    /\ draw_data = DrawDataDefault

\* one frame of the gesture the loop follows: the loop stops at its release
DragFrame(interaction) ==
    /\ gesture # "released"
    /\ HostUpdate(interaction)

\* during the drag the host adds a target to its list
HostAdd(target) ==
    /\ gesture = "dragging"
    /\ Len(host) < MaxDragTargets
    /\ host' = Append(host, target)
    /\ last' = [op |-> "host_add", drag_started |-> FALSE, dragging |-> FALSE]
    /\ UNCHANGED <<gizmo, ret, accum, gesture, draw_data>>

NextDrag ==
    \/ \E interaction \in Interactions : DragFrame(interaction)
    \/ \E target \in TransformSet : HostAdd(target)

SpecDrag == InitDrag /\ [][NextDrag]_vars

---------------------------------------------------------------------------
(* Reconfiguration: every set of modes under several visibilities *)

GizmoModes == {"Rotate", "Translate", "Scale"}

\* the same modes and visibility under another viewport, orientation and pivot
OtherFieldsSet ==
    {GizmoConfig("nonfinite", {"Translate"}, "Global", "MedianPoint", VisibilityDrag),
     GizmoConfig("empty", {"Translate"}, "Global", "MedianPoint", VisibilityDrag),
     GizmoConfig("finite", {"Translate"}, "Local", "IndividualOrigins",
                 VisibilityDrag)}

\* scaling alone and beside rotation, with differing plane flags
PlaneConfigSet ==
    {GizmoConfig("finite", modes, "Global", "MedianPoint", VisibilityPlanes) :
        modes \in {{"Scale"}, {"Rotate", "Scale"}}}

BuildConfigSet ==
    {GizmoConfig("finite", modes, "Global", "MedianPoint", visibility) :
        modes \in SUBSET GizmoModes,
        visibility \in {VisibilityDefault, VisibilityFew, VisibilityDrag,
                        VisibilityNone}}
    \cup OtherFieldsSet \cup PlaneConfigSet

InitConfig ==
    /\ \E c \in BuildConfigSet : \E g \in {new(c)} :
          /\ config = g.config
          /\ subgizmos = g.subgizmos
          /\ active_subgizmo_id = g.active_subgizmo_id
          /\ target_start_transforms = g.target_start_transforms
          /\ gizmo_start_transform = g.gizmo_start_transform
    /\ ret = None
    /\ last = [op |-> "new", drag_started |-> FALSE, dragging |-> FALSE]
    /\ host \in TargetLists
    /\ accum = [start |-> <<>>, sum |-> <<>>, passed |-> <<>>]
    /\ gesture = "none"
    /\ draw_data = DrawDataDefault

NextConfig ==
    \/ \E c \in BuildConfigSet : UpdateConfig(c)
    \/ \E interaction \in Interactions : DragFrame(interaction)

SpecConfig == InitConfig /\ [][NextConfig]_vars

---------------------------------------------------------------------------
(* Merging draw data *)

\* sequences over S of length at most n
SeqsUpTo(S, n) == UNION {[1..k -> S] : k \in 0..n}

\* a colour per vertex, as From<Mesh> makes them
ColorOf(vertex) == <<"rgba", vertex>>

\* the operands of a merge: vertices, their colours, and indices that may or
\* may not be valid for the vertices
DrawDataSet ==
    {[vertices |-> vs, colors |-> [k \in 1..Len(vs) |-> ColorOf(vs[k])],
      indices |-> ix] :
        vs \in SeqsUpTo({0, 1, 2}, MaxVertices),
        ix \in SeqsUpTo(0..MaxVertices, MaxVertices)}

\* the host merges rhs into an accumulator that is still one operand long
Merge(rhs) ==
    /\ Len(draw_data.vertices) <= MaxVertices
    /\ Len(draw_data.indices) <= MaxVertices
    /\ draw_data' = add_assign(draw_data, rhs)
    /\ last' = [op |-> "add_assign", drag_started |-> FALSE, dragging |-> FALSE]
    /\ UNCHANGED <<gizmo, ret, host, accum, gesture>>

InitDraw ==
    /\ config = GizmoDefault.config
    /\ subgizmos = GizmoDefault.subgizmos
    /\ active_subgizmo_id = GizmoDefault.active_subgizmo_id
    /\ target_start_transforms = GizmoDefault.target_start_transforms
    /\ gizmo_start_transform = GizmoDefault.gizmo_start_transform
    /\ ret = None
    /\ last = [op |-> "new", drag_started |-> FALSE, dragging |-> FALSE]
    /\ host = <<>>
    /\ accum = [start |-> <<>>, sum |-> <<>>, passed |-> <<>>]
    /\ gesture = "none"
    /\ draw_data \in DrawDataSet

NextDraw == \E rhs \in DrawDataSet : Merge(rhs)

SpecDraw == InitDraw /\ [][NextDraw]_vars

---------------------------------------------------------------------------
(* Claims *)

ActiveFlagged == {i \in 1..Len(subgizmos) : subgizmos[i].active}
FiniteViewport == viewport_is_finite(config)
DraggingCalls == {i \in Interactions : i.dragging}
ReleasedCalls == {i \in Interactions : ~i.dragging}

\* C1: in every reachable state at most one subgizmo of the collection
\* reports is_active() = true.
C1_SingleActive == Cardinality(ActiveFlagged) <= 1

\* a drag is in progress on one of several subgizmos
C1_Witness ==
    /\ last.op = "update"
    /\ Cardinality(ActiveFlagged) = 1
    /\ Len(subgizmos) >= 2

\* C2 as stated: after every update call with dragging = false the active
\* identifier is None, whatever the viewport is.
C2_Original ==
    (last.op = "update" /\ ~last.dragging) => IsNone(active_subgizmo_id)

\* C2 amended: after every update call with dragging = false made under a
\* finite viewport the active identifier is None.
C2_ReleasedIsIdle ==
    (last.op = "update" /\ ~last.dragging /\ FiniteViewport)
        => IsNone(active_subgizmo_id)

\* a release frame, after a drag had been started
C2_Witness ==
    /\ last.op = "update" /\ ~last.dragging /\ FiniteViewport
    /\ IsNone(active_subgizmo_id)
    /\ gizmo_start_transform # TransformDefault

\* C3: an update call that starts with no active subgizmo leaves an active
\* identifier only if it picked a subgizmo and drag_started is true, the
\* identifier is the picked one's, and whenever it picks with drag_started the
\* snapshots are that call's targets and the pivot computed from them; a call
\* without drag_started never activates.
C3_DragBegins ==
    IsNone(active_subgizmo_id) =>
        \A i \in Interactions, ts \in TargetLists :
            LET pivot == update_for_targets(config, ts)
                hits == {k \in 1..Len(subgizmos) :
                            IsSome(pick([subgizmos[k] EXCEPT !.config = pivot],
                                        pointer_ray(pivot, i.cursor_pos)))}
            IN  \A r \in Calls(Cur, i, ts) :
                    /\ IsSome(r.gizmo.active_subgizmo_id) =>
                          /\ i.drag_started
                          /\ \E k \in hits :
                                r.gizmo.active_subgizmo_id = Some(subgizmos[k].id)
                    /\ (FiniteViewport /\ hits # {} /\ i.drag_started) =>
                          /\ r.gizmo.target_start_transforms = ts
                          /\ r.gizmo.gizmo_start_transform = as_transform(pivot)

\* a drag has just begun on a non-empty target list
C3_Witness ==
    /\ last.op = "update" /\ last.drag_started
    /\ IsSome(active_subgizmo_id)
    /\ target_start_transforms # <<>>
    /\ gizmo_start_transform = as_transform(config)

\* C4 as stated: in an update call that starts with an active subgizmo and has
\* dragging = true the aggregate transform is not recomputed from the targets:
\* it is the folded result, and it is unchanged when the active subgizmo's
\* update returns None.
C4_PivotAuthoritative ==
    (FiniteViewport /\ IsSome(active_subgizmo_id)) =>
        \A i \in DraggingCalls, ts \in TargetLists : \A r \in Calls(Cur, i, ts) :
            as_transform(r.gizmo.config) =
                IF IsSome(r.ret)
                THEN as_transform(update_config_with_result(
                         config, gizmo_start_transform, r.ret.val.result))
                ELSE as_transform(config)

NoneActiveIn(g) ==
    /\ IsNone(g.active_subgizmo_id)
    /\ \A k \in 1..Len(g.subgizmos) : ~g.subgizmos[k].active

\* C5 as stated: under a finite viewport an update call with dragging = false
\* returns None and leaves nothing active, and a second identical call leaves
\* the state of the first, from every gizmo state.
C5_Original ==
    FiniteViewport =>
        \A i \in ReleasedCalls, ts \in TargetLists : \A r \in Calls(Cur, i, ts) :
            /\ IsNone(r.ret)
            /\ NoneActiveIn(r.gizmo)
            /\ update(r.gizmo, i, ts, None).gizmo = r.gizmo

\* C5 amended: as C5, the second call leaving the state of the first when no
\* subgizmo was active before the first call.
C5_ReleasedIdempotent ==
    FiniteViewport =>
        \A i \in ReleasedCalls, ts \in TargetLists : \A r \in Calls(Cur, i, ts) :
            /\ IsNone(r.ret)
            /\ NoneActiveIn(r.gizmo)
            /\ IsNone(active_subgizmo_id) =>
                  update(r.gizmo, i, ts, None).gizmo = r.gizmo

\* an idle frame whose pointer is over a subgizmo
C5_Witness ==
    /\ last.op = "update" /\ ~last.dragging /\ FiniteViewport
    /\ IsNone(ret)
    /\ is_focused(Cur)

\* C6 as stated: update returns Some exactly when a subgizmo is the active one
\* and dragging is true in that call, and None otherwise.
C6_Original ==
    last.op = "update" =>
        (IsSome(ret) <=> (last.dragging /\ IsSome(active_subgizmo_id)))

\* C7: under a non-finite viewport update returns None and changes no field
\* of the gizmo, and draw returns empty draw data.
C7_DegenerateViewport ==
    /\ [](~FiniteViewport => draw(Cur) = DrawDataDefault)
    /\ [][(last'.op = "update" /\ ~FiniteViewport)
            => (ret' = None /\ UNCHANGED gizmo)]_vars

\* update was called under a non-finite viewport while a drag was active
C7_Witness ==
    /\ ~FiniteViewport
    /\ last.op = "update"
    /\ IsSome(active_subgizmo_id)
    /\ subgizmos # <<>>

\* C8 as stated: whenever update returns Some, the returned list has one
\* transform per target passed to that call.
C8_EveryTarget ==
    \A i \in DraggingCalls, ts \in TargetLists : \A r \in Calls(Cur, i, ts) :
        IsSome(r.ret) => Len(r.ret.val.transforms) = Len(ts)

\* C9 as stated: a Translation result returns, for every target, the rotation
\* and scale that target has in this call.
C9_RotationScalePassThrough ==
    \A i \in DraggingCalls, ts \in TargetLists : \A r \in Calls(Cur, i, ts) :
        (IsSome(r.ret) /\ r.ret.val.result.kind = "Translation") =>
            \A k \in 1..Len(r.ret.val.transforms) :
                /\ r.ret.val.transforms[k].rotation = ts[k].rotation
                /\ r.ret.val.transforms[k].scale = ts[k].scale

\* C10: a Translation result returns, for every target, the target's current
\* translation plus the delta (Global) or plus the delta rotated by that
\* target's drag-start rotation (Local); and while the host writes every
\* result back, each target's translation is its drag-start translation plus
\* the sum of the oriented deltas so far, also after the release frame.
C10_TranslationAccumulates ==
    /\ [][(last'.op = "update" /\ IsSome(ret')
              /\ ret'.val.result.kind = "Translation") =>
            \A k \in 1..Len(ret'.val.transforms) :
                ret'.val.transforms[k].translation =
                    VAdd(host[k].translation,
                         OrientedDelta(config, ret'.val.result,
                                       target_start_transforms'[k].rotation))]_vars
    /\ [](gesture \in {"dragging", "released"} =>
            /\ Len(host) = Len(accum.start)
            /\ \A k \in 1..Len(host) :
                  host[k].translation =
                      VAdd(accum.start[k].translation, accum.sum[k]))

\* a released gesture that moved a rotated target in Local orientation
C10_Witness ==
    /\ gesture = "released"
    /\ \E k \in 1..Len(host) :
          /\ accum.sum[k] # VZero
          /\ accum.start[k].rotation # QuatIdentity
          /\ host[k].translation # accum.start[k].translation

\* the last call of the host loop returned a result of one of the kinds
Returned(kinds) ==
    /\ last.op = "update"
    /\ IsSome(ret)
    /\ ret.val.result.kind \in kinds

\* C11: a Scale result returns, for every target, the componentwise product of
\* that target's scale at drag start and the result's total, whatever scale
\* the target has in the call, and the rotation and translation the target
\* has in the call.
C11_ScaleFromStart ==
    Returned({"Scale"}) =>
        \A k \in 1..Len(ret.val.transforms) :
            ret.val.transforms[k] =
                Transform(VMul(accum.start[k].scale, ret.val.result.total),
                          accum.passed[k].rotation, accum.passed[k].translation)

\* a Scale result folded into a target whose scale in the call was neither 1
\* nor its scale at drag start
C11_Witness ==
    /\ Returned({"Scale"})
    /\ ret.val.result.total # VOne
    /\ \E k \in 1..Len(ret.val.transforms) :
          /\ accum.start[k].scale # VOne
          /\ accum.passed[k].scale # accum.start[k].scale
          /\ accum.passed[k].rotation # QuatIdentity

\* C12: within one gesture whose results the host writes back, after every
\* frame that returns a Scale result the scale of each target of the
\* drag-start snapshot is what a single frame with that total gives on the
\* target as it was at drag start; a start scale of (1,1,1) scaled by 2 and
\* then to the total 3 ends at (3,1,1).
C12_ScaleComposition ==
    (Returned({"Scale"}) /\ gesture = "dragging") =>
        /\ Len(accum.start) <= Len(host)
        /\ \A k \in 1..Len(accum.start) :
              host[k].scale =
                  update_scale(accum.start[k], accum.start[k],
                               ret.val.result.total).scale

\* the second frame of the example: (1,1,1), written back as (2,1,1), ends
\* at (3,1,1)
C12_Witness ==
    /\ Returned({"Scale"}) /\ gesture = "dragging"
    /\ \E k \in 1..Len(host) :
          /\ accum.start[k].scale = VOne
          /\ accum.passed[k].scale = V(2, 1, 1)
          /\ host[k].scale = V(3, 1, 1)

\* the rotations a result can stand for: whole quarter turns about an axis
AxisSet == {EX, EY, EZ, VScale(-1, EX), VScale(-1, EY), VScale(-1, EZ)}
DeltaQuats == {from_axis_angle(a, n) : a \in AxisSet, n \in 0..1}

\* C13 as stated: a Rotation or Arcball result stands for one rotation delta;
\* every returned rotation is delta * the rotation passed and the scale is the
\* one passed; under IndividualOrigins the translation is the one passed; under
\* MedianPoint it is pivot + delta * (translation - pivot), so that targets
\* symmetric about the pivot stay symmetric about it.
C13_RotationPivotLaw ==
    Returned({"Rotation", "Arcball"}) =>
        LET out == ret.val.transforms
            in == accum.passed
            pivot == config.translation
        IN  /\ \E delta \in DeltaQuats : \A k \in 1..Len(out) :
                  /\ out[k].rotation = QuatMul(delta, in[k].rotation)
                  /\ out[k].scale = in[k].scale
                  /\ out[k].translation =
                        IF config.pivot_point = "MedianPoint"
                        THEN VAdd(pivot, QuatMulVec(delta,
                                      VSub(in[k].translation, pivot)))
                        ELSE in[k].translation
            /\ config.pivot_point = "MedianPoint" =>
                  \A j, k \in 1..Len(out) :
                      VAdd(in[j].translation, in[k].translation) = VScale(2, pivot)
                          => VAdd(out[j].translation, out[k].translation)
                                 = VScale(2, pivot)

\* C14 as stated: under Local orientation a Rotation result that is not about
\* the view axis turns every target about the result axis rotated by the
\* gizmo pivot's rotation, the same axis for all targets; about the view axis
\* or under Global orientation it turns them about the result axis itself.
C14_PivotRotationAxis ==
    Returned({"Rotation"}) =>
        LET result == ret.val.result
            axis == IF orientation(config) = "Local" /\ ~result.is_view_axis
                    THEN QuatMulVec(config.rotation, result.axis)
                    ELSE result.axis
        IN  \A k \in 1..Len(ret.val.transforms) :
                ret.val.transforms[k].rotation =
                    QuatMul(from_axis_angle(axis, result.delta),
                            accum.passed[k].rotation)

RECURSIVE SumOf(_, _, _)
SumOf(transforms, field, n) ==
    IF n = 0 THEN VZero
    ELSE VAdd(SumOf(transforms, field, n - 1), transforms[n][field])

\* C15 as stated: while the host writes every result back, after each update
\* call that returns Some the pivot translation is the mean of the returned
\* translations and the pivot scale is the mean of the returned scales.
C15_PivotTracksMean ==
    (Returned({"Translation", "Scale", "Rotation", "Arcball"})
         /\ ret.val.transforms # <<>>) =>
        LET out == ret.val.transforms
            n == Len(out)
        IN  /\ VScale(n, config.translation) = SumOf(out, "translation", n)
            /\ VScale(n, config.scale) = SumOf(out, "scale", n)

\* C16: the effective orientation is Local whenever Scale is among the modes
\* and the configured one otherwise; with modes {Translate, Scale} a
\* Translation result is added to each target after being rotated by that
\* target's rotation at drag start, also when Global is configured.
C16_ScaleForcesLocal ==
    /\ orientation(config) =
          IF "Scale" \in config.modes THEN "Local" ELSE config.orientation
    /\ (Returned({"Translation"}) /\ {"Translate", "Scale"} \subseteq config.modes) =>
          \A k \in 1..Len(ret.val.transforms) :
              ret.val.transforms[k].translation =
                  VAdd(accum.passed[k].translation,
                       QuatMulVec(accum.start[k].rotation, ret.val.result.delta))

\* Global is configured with modes {Translate, Scale}, and a rotated target
\* has moved along its own axis, not the world's
C16_Witness ==
    /\ Returned({"Translation"})
    /\ config.modes = {"Translate", "Scale"} /\ config.orientation = "Global"
    /\ \E k \in 1..Len(ret.val.transforms) :
          /\ accum.start[k].rotation # QuatIdentity
          /\ ret.val.transforms[k].translation #
                VAdd(accum.passed[k].translation, ret.val.result.delta)

\* C17 as stated: with both Translate and Scale among the modes the collection
\* holds no Translation and no Scale subgizmo of transform kind Plane, in any
\* direction, whatever the visibility flags are.
C17_NoPlaneHandles ==
    {"Translate", "Scale"} \subseteq config.modes =>
        \A i \in 1..Len(subgizmos) :
            subgizmos[i].kind \in {"Translation", "Scale"}
                => subgizmos[i].transform_kind # "Plane"

\* kind and parameters of the subgizmos, in order
Shape(subs) ==
    [i \in 1..Len(subs) |->
        <<subs[i].kind, subs[i].direction, subs[i].transform_kind>>]

\* C18: after Gizmo::new and after every update_config call, and so in every
\* later state, the collection is the one the construction rules yield for the
\* current modes and visibility.
C18_CollectionMatchesConfig ==
    Shape(subgizmos) = Shape(BuildSubgizmos(config))

\* update_config has cancelled a drag by rebuilding a non-empty collection
C18_Witness ==
    /\ last.op = "update_config"
    /\ gesture = "released" /\ IsNone(active_subgizmo_id)
    /\ gizmo_start_transform # TransformDefault
    /\ Len(subgizmos) >= 2
    /\ C18_CollectionMatchesConfig

\* every subgizmo's triangle, in collection order, indices rebased by the
\* number of vertices before it
DrawOfAll(subs) ==
    LET part(j) == SubGizmoDraw(subs[((j - 1) \div 3) + 1])
        at(j) == ((j - 1) % 3) + 1
    IN  [vertices |-> [j \in 1..(3 * Len(subs)) |-> part(j).vertices[at(j)]],
         colors |-> [j \in 1..(3 * Len(subs)) |-> part(j).colors[at(j)]],
         indices |-> [j \in 1..(3 * Len(subs)) |->
                        3 * ((j - 1) \div 3) + part(j).indices[at(j)]]]

\* C19: under a finite viewport draw returns every subgizmo's draw data,
\* concatenated, when no subgizmo is active, and the draw data of the one
\* subgizmo that has the active identifier when one is active.
C19_DrawAggregation ==
    FiniteViewport =>
        IF IsNone(active_subgizmo_id)
        THEN draw(Cur) = DrawOfAll(subgizmos)
        ELSE \E i \in 1..Len(subgizmos) :
                /\ subgizmos[i].id = active_subgizmo_id.val
                /\ draw(Cur) = SubGizmoDraw(subgizmos[i])

\* a drag is active among several subgizmos and only its handle is drawn
C19_Witness ==
    /\ FiniteViewport /\ IsSome(active_subgizmo_id)
    /\ Len(subgizmos) >= 3
    /\ Len(draw(Cur).vertices) = 3

\* C20: for every cursor position pick_subgizmo returns None when no
\* subgizmo reports a hit, and otherwise a hit whose distance is at most every
\* other hit's and which is the earliest in the collection among the hits at
\* that distance.
C20_ClosestEarliest ==
    \A cursor \in CursorSet :
        LET ray == pointer_ray(config, cursor)
            hits == {i \in 1..Len(subgizmos) : IsSome(pick(subgizmos[i], ray))}
            t(i) == pick(subgizmos[i], ray).val
            picked == pick_subgizmo(subgizmos, ray)
        IN  IF hits = {} THEN picked = None
            ELSE /\ IsSome(picked)
                 /\ picked.val \in hits
                 /\ \A j \in hits :
                       /\ t(picked.val) <= t(j)
                       /\ t(j) = t(picked.val) => picked.val <= j

\* an update call has focused a subgizmo that lies behind a farther hit in
\* the collection and before another hit at its own distance
C20_Witness ==
    /\ last.op = "update"
    /\ \E cursor \in CursorSet :
          LET ray == pointer_ray(config, cursor)
              hits == {i \in 1..Len(subgizmos) : IsSome(pick(subgizmos[i], ray))}
              t(i) == pick(subgizmos[i], ray).val
          IN  \E i \in hits :
                 /\ subgizmos[i].focused
                 /\ \E j \in hits : j < i /\ t(j) > t(i)
                 /\ \E j \in hits : j > i /\ t(j) = t(i)

\* every index points into the vertex list
ValidIndices(d) ==
    \A k \in 1..Len(d.indices) : d.indices[k] < Len(d.vertices)

\* C24: a += b and a + b give a's vertices, colours and indices followed by
\* b's, b's indices raised by the number of a's vertices; indices valid in a
\* and in b are valid in the result; merging is associative and the empty
\* draw data is its identity on both sides.
C24_MergeRebases ==
    (Len(draw_data.vertices) <= MaxVertices /\ Len(draw_data.indices) <= MaxVertices) =>
        \A b \in DrawDataSet :
            LET a == draw_data
                ab == add_assign(a, b)
            IN  /\ add(a, b) = ab
                /\ ab.vertices = a.vertices \o b.vertices
                /\ ab.colors = a.colors \o b.colors
                /\ Len(ab.indices) = Len(a.indices) + Len(b.indices)
                /\ \A k \in 1..Len(ab.indices) :
                      ab.indices[k] =
                          IF k <= Len(a.indices) THEN a.indices[k]
                          ELSE b.indices[k - Len(a.indices)] + Len(a.vertices)
                /\ (ValidIndices(a) /\ ValidIndices(b)) => ValidIndices(ab)
                /\ add_assign(a, DrawDataDefault) = a
                /\ add_assign(DrawDataDefault, a) = a
                /\ \A c \in DrawDataSet :
                      add_assign(ab, c) = add_assign(a, add_assign(b, c))

\* a merge has rebased a valid index of a non-empty right-hand side
C24_Witness ==
    /\ last.op = "add_assign"
    /\ Len(draw_data.vertices) = 2 * MaxVertices
    /\ ValidIndices(draw_data)
    /\ \E k \in 1..Len(draw_data.indices) : draw_data.indices[k] >= MaxVertices

FocusedIn(g) == {k \in 1..Len(g.subgizmos) : g.subgizmos[k].focused}

\* the focus a call leaves is this call's: the subgizmo picked by its ray
\* while no drag was active, or the subgizmo dragged in it
FocusIsOfCall(interaction, r) ==
    /\ Cardinality(FocusedIn(r.gizmo)) <= 1
    /\ \A k \in FocusedIn(r.gizmo) :
          \/ /\ IsNone(active_subgizmo_id)
             /\ pick_subgizmo(SetConfig(subgizmos, update_for_targets(config, host)),
                              pointer_ray(config, interaction.cursor_pos)) = Some(k)
          \/ /\ interaction.dragging
             /\ r.gizmo.active_subgizmo_id = Some(r.gizmo.subgizmos[k].id)

\* C21 as stated: after every update call, whatever the viewport is, at most
\* one subgizmo is focused and it is the one this call picked or dragged.
C21_Original ==
    \A i \in Interactions : \A r \in Calls(Cur, i, host) : FocusIsOfCall(i, r)

\* C21 amended: after every update call made under a finite viewport at most
\* one subgizmo is focused and it is the one this call picked or dragged.
C21_FocusPerFrame ==
    FiniteViewport =>
        \A i \in Interactions : \A r \in Calls(Cur, i, host) : FocusIsOfCall(i, r)

\* a frame has moved the focus to the subgizmo under the pointer
C21_Witness ==
    /\ last.op = "update" /\ FiniteViewport
    /\ IsNone(active_subgizmo_id)
    /\ Cardinality(FocusedIn(Cur)) = 1
    /\ Len(subgizmos) >= 2

\* C22: update_for_targets with an empty target list sets the aggregate scale
\* to (1,1,1) and leaves the aggregate translation and rotation as they were.
C22_EmptyTargetsKeepPose ==
    LET p == update_for_targets(config, <<>>)
    IN  /\ p.scale = VOne
        /\ p.translation = config.translation
        /\ p.rotation = config.rotation

\* C23: under a viewport that is finite but empty every update returns None
\* and draw returns empty draw data, as under a non-finite viewport.
C23_EmptyViewportIdle ==
    config.viewport = "empty" =>
        /\ draw(Cur) = DrawDataDefault
        /\ \A i \in Interactions : \A r \in Calls(Cur, i, host) : IsNone(r.ret)

\* p holds the aggregate of the non-empty list targets: the means of the
\* translations and scales and the rotation of the last target
AggregateOf(p, targets) ==
    LET n == Len(targets)
    IN  /\ VScale(n, p.translation) = SumOf(targets, "translation", n)
        /\ VScale(n, p.scale) = SumOf(targets, "scale", n)
        /\ p.rotation = targets[n].rotation

\* C25: a frame that folds no result leaves, for every non-empty target list
\* and whatever aggregate was held before, the mean translation, the mean
\* scale and the last target's rotation as the aggregate.
C25_AggregateOfTargets ==
    /\ (last.op = "update" /\ ~last.dragging /\ gesture = "none"
            /\ accum.passed # <<>>) => AggregateOf(config, accum.passed)
    /\ (FiniteViewport /\ IsNone(active_subgizmo_id)) =>
          \A ts \in DragTargetLists \ {<<>>} : \A i \in ReleasedCalls :
              \A r \in Calls(Cur, i, ts) : AggregateOf(r.gizmo.config, ts)

\* a hover frame has aggregated two targets of different rotations whose
\* mean translation is not a whole number
C25_Witness ==
    /\ last.op = "update" /\ ~last.dragging /\ gesture = "none"
    /\ Len(accum.passed) = 2
    /\ config.translation[4] > 1
    /\ accum.passed[1].rotation # accum.passed[2].rotation
    /\ config.rotation = accum.passed[2].rotation
    /\ config.translation # accum.passed[1].translation
    /\ config.translation # accum.passed[2].translation

UniformScale ==
    {k \in 1..Len(subgizmos) :
        /\ subgizmos[k].kind = "Scale"
        /\ subgizmos[k].direction = "View"
        /\ subgizmos[k].transform_kind = "Plane"}

\* C26: the uniform-scale subgizmo is in the collection only when Scale is
\* the sole enabled mode and scaling_plane.view is set.
C26_UniformScaleAlone ==
    UniformScale # {} =>
        /\ config.modes = {"Scale"}
        /\ config.gizmo_visibility.scaling_plane.view

\* a configuration change has built the uniform-scale subgizmo
C26_Witness ==
    /\ last.op = "update_config"
    /\ Cardinality(UniformScale) = 1
    /\ Len(subgizmos) >= 2

\* the drag state of g is the one the current state holds
SameDrag(g) ==
    /\ g.active_subgizmo_id = active_subgizmo_id
    /\ g.target_start_transforms = target_start_transforms
    /\ g.gizmo_start_transform = gizmo_start_transform

\* C27: while a drag is active under a finite viewport, every update call with
\* dragging = true keeps active_subgizmo_id and both start snapshots, for every
\* pointer position, drag_started flag, targets argument and subgizmo result,
\* and returns None when the subgizmo returns None; the target snapshot is
\* the target list of the frame that started the drag.
C27_DragPersists ==
    IsSome(active_subgizmo_id) =>
        /\ target_start_transforms = accum.start
        /\ FiniteViewport =>
              \A i \in DraggingCalls : \A ts \in TargetLists :
                  /\ \A r \in Calls(Cur, i, ts) : SameDrag(r.gizmo)
                  /\ IsNone(UpdateFinish(UpdatePick(Cur, i, ts), i, ts, None).ret)

\* a later frame of a drag gave no result after the targets had moved
C27_Witness ==
    /\ IsSome(active_subgizmo_id) /\ FiniteViewport
    /\ last.op = "update" /\ last.dragging /\ ~last.drag_started
    /\ IsNone(ret)
    /\ target_start_transforms = accum.start
    /\ host # accum.start

ContinuedCalls == {i \in Interactions : i.dragging /\ ~i.drag_started}

\* C28: while a drag is active, update_config with other modes or another
\* visibility leaves no active identifier and no subgizmo flagged active, and
\* the next update with dragging and without drag_started returns None;
\* update_config with the same modes and visibility keeps the identifier and
\* the collection.
C28_ConfigCancelsDrag ==
    IsSome(active_subgizmo_id) =>
        \A c \in BuildConfigSet :
            LET g == update_config(Cur, c)
            IN  IF c.modes # config.modes
                   \/ c.gizmo_visibility # config.gizmo_visibility
                THEN /\ IsNone(g.active_subgizmo_id)
                     /\ \A k \in 1..Len(g.subgizmos) : ~g.subgizmos[k].active
                     /\ \A i \in ContinuedCalls :
                           \A r \in Calls(g, i, host) : IsNone(r.ret)
                ELSE /\ g.active_subgizmo_id = active_subgizmo_id
                     /\ g.subgizmos = subgizmos

\* a configuration change has cancelled a drag whose last frame returned a
\* result, and rebuilt the collection
C28_Witness ==
    /\ last.op = "update_config"
    /\ gesture = "released"
    /\ IsSome(ret)
    /\ IsNone(active_subgizmo_id)
    /\ Len(subgizmos) >= 1
    /\ \A k \in 1..Len(subgizmos) : ~subgizmos[k].active

\* C29: after every update call under a finite viewport every subgizmo's
\* last-received configuration is the gizmo's current configuration.
C29_SubgizmosHoldConfig ==
    (last.op = "update" /\ FiniteViewport) =>
        \A k \in 1..Len(subgizmos) : subgizmos[k].config = config

\* C30: in every reachable state a subgizmo is flagged active exactly when
\* active_subgizmo_id is Some of its id, a stored id is the id of a subgizmo
\* of the collection, and under a finite viewport every update call with
\* dragging = false leaves no active id.
C30_FlagsAgreeWithId ==
    /\ \A k \in 1..Len(subgizmos) :
          subgizmos[k].active <=> active_subgizmo_id = Some(subgizmos[k].id)
    /\ IsSome(active_subgizmo_id) =>
          /\ IsSome(active_subgizmo_mut(subgizmos, active_subgizmo_id))
          /\ FiniteViewport =>
                \A i \in ReleasedCalls : \A r \in Calls(Cur, i, host) :
                    /\ IsNone(r.gizmo.active_subgizmo_id)
                    /\ \A k \in 1..Len(r.gizmo.subgizmos) :
                          ~r.gizmo.subgizmos[k].active

\* a drag on one of several subgizmos has outlived a configuration change
C30_Witness ==
    /\ last.op = "update_config"
    /\ IsSome(active_subgizmo_id)
    /\ Len(subgizmos) >= 2
    /\ \E k \in 1..Len(subgizmos) :
          subgizmos[k].active /\ active_subgizmo_id = Some(subgizmos[k].id)

PlaneScale(d) ==
    {k \in 1..Len(subgizmos) :
        /\ subgizmos[k].kind = "Scale"
        /\ subgizmos[k].direction = d
        /\ subgizmos[k].transform_kind = "Plane"}

\* C31: for each direction d of X, Y, Z the plane-scale subgizmo of d is in
\* the collection exactly when Scale is enabled, Translate is not and
\* gizmo_visibility.scaling_plane is set for d.
C31_ScalePlaneOwnFlag ==
    \A d \in {"X", "Y", "Z"} :
        PlaneScale(d) # {} <=>
            /\ "Scale" \in config.modes
            /\ "Translate" \notin config.modes
            /\ is_active(config.gizmo_visibility.scaling_plane, d)

====
